---- MODULE Spec2Model ----
(***************************************************************************)
(* Model of entregable2_nuria.py: a producer task (simular_recepcion_datos) *)
(* appends sensor readings to a shared DatosCamion list, a driver task      *)
(* (procesar_datos) periodically runs a chain of handlers over it           *)
(* (EstadisticasHandler -> UmbralTemperaturaHandler -> VariacionHandler),   *)
(* and the handlers publish Notificacion objects through a Publicador.      *)
(*                                                                         *)
(* Conventions of the model                                                *)
(*  - Python None is the empty tuple <<>>.                                  *)
(*  - A reading is the tuple <<timestamp, temp, lon, lat, humedad>> of the  *)
(*    source; Python index d[k] is d[k+1] here.                             *)
(*  - Temperatures and humidities are round(x, 2) values, held in          *)
(*    hundredths (25.0 degrees is 2500), so comparisons are exact.          *)
(*  - Timestamps are whole seconds of the wall clock `clock`.               *)
(*  - A dict is the set of its <<key, value>> pairs ({} is the empty set).  *)
(*  - A mean is the fraction <<numerator, denominator>>; a standard         *)
(*    deviation is the fraction under its square root.                      *)
(*  - asyncio runs one task at a time: a task's actions are enabled only    *)
(*    while the other task is suspended in asyncio.sleep.                   *)
(***************************************************************************)
EXTENDS Integers, Sequences, FiniteSets, TLC

VARIABLES
    datos,          \* DatosCamion: the list of readings
    ultimo_dato,    \* DatosCamion.ultimo_dato
    estadisticas,   \* DatosCamion.estadisticas
    suscriptores,   \* Publicador.suscriptores
    clock,          \* datetime.datetime.now()
    pcProd,         \* position of simular_recepcion_datos
    lectura,        \* its locals (timestamp, temperatura, ..., humedad)
    pcDrv,          \* position of procesar_datos / the handler being awaited
    now,            \* local `now` of the handler that last filtered
    ventana,        \* seconds of the timedelta it used
    visto,          \* the list the filter iterated over
    recientes,      \* local `recientes` / `recientes_30s` it produced
    traza,          \* handlers entered during the current pass, in order
    publicadas,     \* Notificacion objects passed to notificar (current pass)
    entregas,       \* calls sub.actualizar(notificacion) made (current pass)
    falla           \* exception raised by the last operation, or None

vars == <<datos, ultimo_dato, estadisticas, suscriptores, clock, pcProd, lectura,
          pcDrv, now, ventana, visto, recientes, traza, publicadas, entregas, falla>>

storeVars == <<datos, ultimo_dato, estadisticas>>
filtroVars == <<now, ventana, visto, recientes>>
pasoVars == <<traza, publicadas, entregas>>

-----------------------------------------------------------------------------
(* Bounds of the model *)

MaxReadings == 2        \* readings the producer appends before it is cut off
MaxSubs == 3            \* length of the subscriber list

(* Instants the wall clock takes: around both window edges (30 s, 60 s). *)
Instants == {0, 1, 30, 31, 60, 61}

(* Values random.uniform + round can produce, around the threshold and the
   spread limit: 23.00, 25.00, 25.01 and 40.00, 42.00, 42.01. *)
Temps == {2300, 2500, 2501}
Hums == {4000, 4200, 4201}
Coords == {0}

-----------------------------------------------------------------------------
(* Program constants *)

None == <<>>
UMBRAL_TEMP == 2500
SEGUNDOS_ESTADISTICAS == 60
SEGUNDOS_VARIACION == 30
VARIACION_MAX == 200
PRIORIDAD_TEMPERATURA == 9
PRIORIDAD_VARIACION == 8
PRIORIDAD_MINIMA_ALERTA == 8

Observers == {"Administrador", "AlertaTemperatura"}

-----------------------------------------------------------------------------
(* Readings *)

Reading == Instants \X Temps \X Coords \X Coords \X Hums

Timestamp(d) == d[1]
Temperatura(d) == d[2]
Humedad(d) == d[5]

Last(s) == s[Len(s)]

IsPrefix(s, t) == Len(s) <= Len(t) /\ \A i \in 1..Len(s) : s[i] = t[i]

(* Mutant of ListAppend: the reading inserted at the head of the list. *)
ListAppend_Mutante(s, x) == <<x>> \o s

(* list.append, as datos_camion.append(...) of line 241. *)
ListAppend(s, x) == Append(s, x)

-----------------------------------------------------------------------------
(* list(filter(lambda d: d[0] >= hace_Ns, datos)) and list(map(...)) *)

(* Mutant of EnVentana: the edge of the window is left out. *)
EnVentana_Mutante(d, desde) == Timestamp(d) > desde

EnVentana(d, desde) == Timestamp(d) >= desde

Filtrar(s, desde) == SelectSeq(s, LAMBDA d : EnVentana(d, desde))

Temperaturas(s) == [i \in 1..Len(s) |-> Temperatura(s[i])]
Humedades(s) == [i \in 1..Len(s) |-> Humedad(s[i])]

-----------------------------------------------------------------------------
(* statistics.mean, statistics.stdev, max, min *)

RECURSIVE Suma(_)
Suma(xs) == IF xs = <<>> THEN 0 ELSE Head(xs) + Suma(Tail(xs))

(* statistics.mean(xs): the fraction sum/n. *)
Mean(xs) == <<Suma(xs), Len(xs)>>

(* Mutant of Stdev: the population deviation (divisor n) in place of the sample one. *)
Stdev_Mutante(xs) ==
    LET n == Len(xs)
        S == Suma(xs)
        desvios == [i \in 1..n |-> (n * xs[i] - S) * (n * xs[i] - S)]
    IN  <<Suma(desvios), n * n * n>>

(* statistics.stdev(xs): the square root of sum((x - mean)^2) / (n - 1);
   with mean = S/n that radicand is sum((n*x - S)^2) / (n*n*(n - 1)). *)
Stdev(xs) ==
    LET n == Len(xs)
        S == Suma(xs)
        desvios == [i \in 1..n |-> (n * xs[i] - S) * (n * xs[i] - S)]
    IN  <<Suma(desvios), n * n * (n - 1)>>

Max(xs) == CHOOSE x \in {xs[i] : i \in 1..Len(xs)} :
               \A j \in 1..Len(xs) : x >= xs[j]
Min(xs) == CHOOSE x \in {xs[i] : i \in 1..Len(xs)} :
               \A j \in 1..Len(xs) : x <= xs[j]

(* EstadisticasHandler.manejar, lines 72-84: the guarded computation of one
   projection, <<media, desv>>. *)
SuficientesDatos(xs) == Len(xs) > 1

Estadisticos(xs) ==
    IF SuficientesDatos(xs)
    THEN <<Mean(xs), Stdev(xs)>>
    ELSE <<IF xs # <<>> THEN <<xs[1], 1>> ELSE None, <<0, 1>>>>

(* The dict assigned to datos.estadisticas, lines 90-95. *)
CalcularEstadisticas(rec) ==
    LET t == Estadisticos(Temperaturas(rec))
        h == Estadisticos(Humedades(rec))
    IN  { <<"media_temp", t[1]>>, <<"desv_temp", t[2]>>,
          <<"media_hum", h[1]>>, <<"desv_hum", h[2]>> }

-----------------------------------------------------------------------------
(* Notificacion, Publicador and the two Suscriptor classes *)

Notificacion(titulo, categoria, prioridad) ==
    [titulo |-> titulo, categoria |-> categoria, prioridad |-> prioridad]

NotificacionTemperatura(temp_actual) ==
    Notificacion(<<"Temperatura alta", temp_actual>>, "Temperatura",
                 PRIORIDAD_TEMPERATURA)

NotificacionVariacion ==
    Notificacion(<<"Variacion brusca en temperatura o humedad">>, "Variacion",
                 PRIORIDAD_VARIACION)

Actualizar_Mutante(sub, n) ==
    IF sub = "AlertaTemperatura"
    THEN n.categoria = "Temperatura" /\ n.prioridad > PRIORIDAD_MINIMA_ALERTA
    ELSE TRUE

(* Suscriptor*.actualizar: TRUE when the subscriber prints. *)
Actualizar(sub, n) ==
    IF sub = "AlertaTemperatura"
    THEN n.categoria = "Temperatura" /\ n.prioridad >= PRIORIDAD_MINIMA_ALERTA
    ELSE TRUE

(* Publicador.suscribir: list.append. *)
Suscribir(subs, observer) == Append(subs, observer)

(* Mutant of Desuscribir: the last occurrence is dropped. *)
Desuscribir_Mutante(subs, observer) ==
    LET i == CHOOSE k \in 1..Len(subs) :
                 /\ subs[k] = observer
                 /\ \A j \in (k + 1)..Len(subs) : subs[j] # observer
    IN  SubSeq(subs, 1, i - 1) \o SubSeq(subs, i + 1, Len(subs))

(* Publicador.desuscribir: list.remove drops the first occurrence. *)
Desuscribir(subs, observer) ==
    LET i == CHOOSE k \in 1..Len(subs) :
                 /\ subs[k] = observer
                 /\ \A j \in 1..(k - 1) : subs[j] # observer
    IN  SubSeq(subs, 1, i - 1) \o SubSeq(subs, i + 1, Len(subs))

(* Publicador.notificar: the calls sub.actualizar(n), in list order. *)
Notificar(subs, n) ==
    [i \in 1..Len(subs) |->
        [sub |-> subs[i], notificacion |-> n, imprime |-> Actualizar(subs[i], n)]]

-----------------------------------------------------------------------------
(* The chain built by main, lines 274-276, and Handler.manejar *)

Cadena == "Estadisticas"

(* Mutant of Siguiente: the chain wired as Estadisticas -> Variacion -> Umbral. *)
Siguiente_Mutante(h) ==
    CASE h = "Estadisticas" -> "Variacion"
      [] h = "Variacion" -> "Umbral"
      [] h = "Umbral" -> "None"

Siguiente(h) ==
    CASE h = "Estadisticas" -> "Umbral"
      [] h = "Umbral" -> "Variacion"
      [] h = "Variacion" -> "None"

(* Handler.manejar: await the next handler if there is one, else return to
   whoever awaited the head of the chain. *)
HandlerManejar(h) == IF Siguiente(h) # "None" THEN Siguiente(h) ELSE "retorno"

Suspendido(pc) == pc \in {"inicio", "dormido"}

-----------------------------------------------------------------------------
(* The wall clock moves forward by any amount, at any point. *)

Tick ==
    /\ \E t \in Instants : t > clock /\ clock' = t
    /\ UNCHANGED <<storeVars, suscriptores, pcProd, lectura, pcDrv, filtroVars,
                   pasoVars, falla>>

-----------------------------------------------------------------------------
(* simular_recepcion_datos *)

(* Mutant of Recibir: the producer may run in the middle of a pass. *)
Recibir_Mutante ==
    /\ Suspendido(pcProd)
    /\ Len(datos) < MaxReadings
    /\ \E temperatura \in Temps, humedad \in Hums, lon \in Coords, lat \in Coords :
          /\ lectura' = <<clock, temperatura, lon, lat, humedad>>
          /\ datos' = ListAppend(datos, lectura')
    /\ pcProd' = "asignar"
    /\ UNCHANGED <<ultimo_dato, estadisticas, suscriptores, clock, pcDrv,
                   filtroVars, pasoVars, falla>>

(* Lines 231-241: draw the reading and append it.  The producer is scheduled
   first by gather; afterwards it runs only while the driver sleeps. *)
Recibir ==
    /\ Suspendido(pcProd)
    /\ pcDrv = "dormido" \/ (pcDrv = "inicio" /\ pcProd = "inicio")
    /\ Len(datos) < MaxReadings
    /\ \E temperatura \in Temps, humedad \in Hums, lon \in Coords, lat \in Coords :
          /\ lectura' = <<clock, temperatura, lon, lat, humedad>>
          /\ datos' = ListAppend(datos, lectura')
    /\ pcProd' = "asignar"
    /\ UNCHANGED <<ultimo_dato, estadisticas, suscriptores, clock, pcDrv,
                   filtroVars, pasoVars, falla>>

(* Mutant of AsignarUltimo: ultimo_dato assigned only while it is still None. *)
AsignarUltimo_Mutante ==
    /\ pcProd = "asignar"
    /\ ultimo_dato' = IF ultimo_dato = None THEN lectura ELSE ultimo_dato
    /\ lectura' = None
    /\ pcProd' = "dormido"
    /\ UNCHANGED <<datos, estadisticas, suscriptores, clock, pcDrv, filtroVars,
                   pasoVars, falla>>

(* Line 242, then the sleep of line 246. *)
AsignarUltimo ==
    /\ pcProd = "asignar"
    /\ ultimo_dato' = lectura
    /\ lectura' = None
    /\ pcProd' = "dormido"
    /\ UNCHANGED <<datos, estadisticas, suscriptores, clock, pcDrv, filtroVars,
                   pasoVars, falla>>

-----------------------------------------------------------------------------
(* The handlers *)

(* EstadisticasHandler.manejar, lines 63-96. *)
(* Mutant of EstadisticasHandler: the readings outside the window are
   dropped from the store. *)
EstadisticasHandler_Mutante ==
    /\ pcDrv = "Estadisticas"
    /\ traza' = Append(traza, "Estadisticas")
    /\ now' = clock
    /\ ventana' = SEGUNDOS_ESTADISTICAS
    /\ visto' = datos
    /\ recientes' = Filtrar(datos, clock - SEGUNDOS_ESTADISTICAS)
    /\ datos' = recientes'
    /\ estadisticas' = CalcularEstadisticas(recientes')
    /\ pcDrv' = HandlerManejar("Estadisticas")
    /\ UNCHANGED <<ultimo_dato, suscriptores, clock, pcProd, lectura,
                   publicadas, entregas, falla>>

EstadisticasHandler ==
    /\ pcDrv = "Estadisticas"
    /\ traza' = Append(traza, "Estadisticas")
    /\ now' = clock
    /\ ventana' = SEGUNDOS_ESTADISTICAS
    /\ visto' = datos
    /\ recientes' = Filtrar(datos, clock - SEGUNDOS_ESTADISTICAS)
    /\ estadisticas' = CalcularEstadisticas(recientes')
    /\ pcDrv' = HandlerManejar("Estadisticas")
    /\ UNCHANGED <<datos, ultimo_dato, suscriptores, clock, pcProd, lectura,
                   publicadas, entregas, falla>>

(* Mutant of SuperaUmbral: the threshold itself counts as exceeded. *)
SuperaUmbral_Mutante(temp_actual) == temp_actual >= UMBRAL_TEMP

(* The test of line 104. *)
SuperaUmbral(temp_actual) == temp_actual > UMBRAL_TEMP

(* UmbralTemperaturaHandler.manejar, lines 101-113.  datos.ultimo_dato[1]
   raises TypeError when ultimo_dato is None; the exception leaves every
   awaiting coroutine. *)
UmbralTemperaturaHandler ==
    /\ pcDrv = "Umbral"
    /\ traza' = Append(traza, "Umbral")
    /\ IF ultimo_dato = None
       THEN /\ falla' = "TypeError"
            /\ pcDrv' = "excepcion"
            /\ UNCHANGED <<publicadas, entregas>>
       ELSE LET temp_actual == Temperatura(ultimo_dato)
                n == NotificacionTemperatura(temp_actual)
            IN  /\ IF SuperaUmbral(temp_actual)
                   THEN /\ publicadas' = Append(publicadas, n)
                        /\ entregas' = entregas \o Notificar(suscriptores, n)
                   ELSE UNCHANGED <<publicadas, entregas>>
                /\ pcDrv' = HandlerManejar("Umbral")
                /\ UNCHANGED falla
    /\ UNCHANGED <<storeVars, suscriptores, clock, pcProd, lectura, filtroVars>>

(* Mutant of HayVariacion: the humidities are not looked at. *)
HayVariacion_Mutante(temps, hums) == Max(temps) - Min(temps) > VARIACION_MAX

(* The test of line 124. *)
HayVariacion(temps, hums) ==
    \/ Max(temps) - Min(temps) > VARIACION_MAX
    \/ Max(hums) - Min(hums) > VARIACION_MAX

(* VariacionHandler.manejar, lines 116-133. *)
VariacionHandler ==
    /\ pcDrv = "Variacion"
    /\ traza' = Append(traza, "Variacion")
    /\ now' = clock
    /\ ventana' = SEGUNDOS_VARIACION
    /\ visto' = datos
    /\ recientes' = Filtrar(datos, clock - SEGUNDOS_VARIACION)
    /\ LET temps == Temperaturas(recientes')
           hums == Humedades(recientes')
       IN  IF temps # <<>> /\ hums # <<>> /\ HayVariacion(temps, hums)
           THEN /\ publicadas' = Append(publicadas, NotificacionVariacion)
                /\ entregas' = entregas \o Notificar(suscriptores, NotificacionVariacion)
           ELSE UNCHANGED <<publicadas, entregas>>
    /\ pcDrv' = HandlerManejar("Variacion")
    /\ UNCHANGED <<storeVars, suscriptores, clock, pcProd, lectura, falla>>

-----------------------------------------------------------------------------
(* procesar_datos *)

(* Mutant of ProcesarDatos: the chain is called without looking at the store. *)
(* Mutant of ProcesarDatos: the driver may run between the producer's
   append (line 241) and its assignment of ultimo_dato (line 242). *)
ProcesarDatos_Intercalado ==
    /\ Suspendido(pcDrv)
    /\ pcProd \in {"dormido", "asignar"}
    /\ pcDrv' = IF Len(datos) > 0 THEN Cadena ELSE "dormido"
    /\ UNCHANGED <<storeVars, suscriptores, clock, pcProd, lectura, filtroVars,
                   pasoVars, falla>>

ProcesarDatos_Mutante ==
    /\ Suspendido(pcDrv)
    /\ pcProd = "dormido"
    /\ pcDrv' = Cadena
    /\ UNCHANGED <<storeVars, suscriptores, clock, pcProd, lectura, filtroVars,
                   pasoVars, falla>>

(* Lines 249-251: one turn of the loop, up to the call of the chain.  The
   driver first runs after the producer's first turn. *)
ProcesarDatos ==
    /\ Suspendido(pcDrv)
    /\ pcProd = "dormido"
    /\ pcDrv' = IF Len(datos) > 0 THEN Cadena ELSE "dormido"
    /\ UNCHANGED <<storeVars, suscriptores, clock, pcProd, lectura, filtroVars,
                   pasoVars, falla>>

(* Mutant of Dormir: the driver returns after its pass instead of looping. *)
Dormir_Mutante ==
    /\ pcDrv = "retorno"
    /\ pcDrv' = "fin"
    /\ now' = 0 /\ ventana' = 0 /\ recientes' = <<>>
    /\ traza' = <<>> /\ publicadas' = <<>> /\ entregas' = <<>>
    /\ UNCHANGED <<storeVars, suscriptores, clock, pcProd, lectura, visto, falla>>

(* Line 252: the chain has returned and the driver sleeps; the handlers'
   locals and the output of the pass are dropped from the state (`visto`
   keeps the list the last filter read). *)
Dormir ==
    /\ pcDrv = "retorno"
    /\ pcDrv' = "dormido"
    /\ now' = 0 /\ ventana' = 0 /\ recientes' = <<>>
    /\ traza' = <<>> /\ publicadas' = <<>> /\ entregas' = <<>>
    /\ UNCHANGED <<storeVars, suscriptores, clock, pcProd, lectura, visto, falla>>

-----------------------------------------------------------------------------
(* The program as wired by main, lines 256-282 *)

Init ==
    /\ datos = <<>>
    /\ ultimo_dato = None
    /\ estadisticas = {}
    /\ suscriptores = <<"Administrador", "AlertaTemperatura">>
    /\ clock = 0
    /\ pcProd = "inicio"
    /\ lectura = None
    /\ pcDrv = "inicio"
    /\ now = 0 /\ ventana = 0 /\ visto = <<>> /\ recientes = <<>>
    /\ traza = <<>> /\ publicadas = <<>> /\ entregas = <<>>
    /\ falla = "ninguna"

Next ==
    \/ Tick
    \/ Recibir
    \/ AsignarUltimo
    \/ ProcesarDatos
    \/ EstadisticasHandler
    \/ UmbralTemperaturaHandler
    \/ VariacionHandler
    \/ Dormir

Spec == Init /\ [][Next]_vars

-----------------------------------------------------------------------------
(* One pass of the chain awaited directly on a DatosCamion, as a caller of   *)
(* cadena.manejar(datos) may build it: any list of readings in arrival       *)
(* order, ultimo_dato either still None (line 225) or the last reading.      *)

RECURSIVE StoresOfLen(_)
StoresOfLen(n) ==
    IF n = 0
    THEN {<<>>}
    ELSE {Append(p[1], p[2]) :
            p \in {q \in StoresOfLen(n - 1) \X Reading :
                      q[1] = <<>> \/ Timestamp(Last(q[1])) <= Timestamp(q[2])}}

Stores == UNION {StoresOfLen(n) : n \in 0..MaxReadings}

InitChain ==
    /\ datos \in Stores
    /\ ultimo_dato \in {None} \cup (IF datos = <<>> THEN {} ELSE {Last(datos)})
    /\ estadisticas = {}
    /\ suscriptores = <<"Administrador", "AlertaTemperatura">>
    /\ clock \in {t \in Instants : datos = <<>> \/ Timestamp(Last(datos)) <= t}
    /\ pcProd = "dormido"
    /\ lectura = None
    /\ pcDrv = Cadena
    /\ now = 0 /\ ventana = 0 /\ visto = <<>> /\ recientes = <<>>
    /\ traza = <<>> /\ publicadas = <<>> /\ entregas = <<>>
    /\ falla = "ninguna"

NextChain ==
    \/ Tick
    \/ EstadisticasHandler
    \/ UmbralTemperaturaHandler
    \/ VariacionHandler

SpecChain == InitChain /\ [][NextChain]_vars

-----------------------------------------------------------------------------
(* A Publicador driven by a caller: suscribir, desuscribir and notificar in  *)
(* any order.  `traza` holds the last call, `publicadas` and `entregas` the  *)
(* notification of the last notificar and the calls it made.                 *)

(* Values a caller of notificar can pass as categoria and prioridad. *)
Categorias == {"Temperatura", "Variacion"}
Prioridades == {PRIORIDAD_MINIMA_ALERTA - 1, PRIORIDAD_MINIMA_ALERTA,
                PRIORIDAD_MINIMA_ALERTA + 1}

Notificaciones ==
    {NotificacionTemperatura(t) : t \in Temps} \cup {NotificacionVariacion}
        \cup {Notificacion(<<"aviso">>, c, p) : c \in Categorias, p \in Prioridades}

Registrado(subs, observer) == \E i \in 1..Len(subs) : subs[i] = observer

PublicadorSuscribir(observer) ==
    /\ Len(suscriptores) < MaxSubs
    /\ suscriptores' = Suscribir(suscriptores, observer)
    /\ traza' = <<"suscribir", observer>>
    /\ falla' = "ninguna"
    /\ UNCHANGED <<storeVars, clock, pcProd, lectura, pcDrv, filtroVars,
                   publicadas, entregas>>

(* list.remove raises ValueError when the observer is not in the list. *)
PublicadorDesuscribir(observer) ==
    /\ IF Registrado(suscriptores, observer)
       THEN /\ suscriptores' = Desuscribir(suscriptores, observer)
            /\ falla' = "ninguna"
       ELSE /\ falla' = "ValueError"
            /\ UNCHANGED suscriptores
    /\ traza' = <<"desuscribir", observer>>
    /\ UNCHANGED <<storeVars, clock, pcProd, lectura, pcDrv, filtroVars,
                   publicadas, entregas>>

PublicadorNotificar(n) ==
    /\ publicadas' = <<n>>
    /\ entregas' = Notificar(suscriptores, n)
    /\ traza' = <<"notificar">>
    /\ falla' = "ninguna"
    /\ UNCHANGED <<storeVars, suscriptores, clock, pcProd, lectura, pcDrv,
                   filtroVars>>

InitBus ==
    /\ datos = <<>>
    /\ ultimo_dato = None
    /\ estadisticas = {}
    /\ suscriptores = <<>>
    /\ clock = 0
    /\ pcProd = "inicio"
    /\ lectura = None
    /\ pcDrv = "inicio"
    /\ now = 0 /\ ventana = 0 /\ visto = <<>> /\ recientes = <<>>
    /\ traza = <<>> /\ publicadas = <<>> /\ entregas = <<>>
    /\ falla = "ninguna"

NextBus ==
    \/ \E observer \in Observers : PublicadorSuscribir(observer)
    \/ \E observer \in Observers : PublicadorDesuscribir(observer)
    \/ \E n \in Notificaciones : PublicadorNotificar(n)

SpecBus == InitBus /\ [][NextBus]_vars

-----------------------------------------------------------------------------
(* procesar_datos started on a store nothing has been appended to yet: the   *)
(* driver takes turns while the producer, asleep, has not delivered its      *)
(* first reading.                                                            *)

InitDriver ==
    /\ datos = <<>>
    /\ ultimo_dato = None
    /\ estadisticas = {}
    /\ suscriptores = <<"Administrador", "AlertaTemperatura">>
    /\ clock = 0
    /\ pcProd = "dormido"
    /\ lectura = None
    /\ pcDrv = "inicio"
    /\ now = 0 /\ ventana = 0 /\ visto = <<>> /\ recientes = <<>>
    /\ traza = <<>> /\ publicadas = <<>> /\ entregas = <<>>
    /\ falla = "ninguna"

SpecDriver == InitDriver /\ [][Next]_vars

-----------------------------------------------------------------------------
(* main with a coordinate adapter whose convertir_a_olc may raise (the base  *)
(* InterfaceCoordenadas.convertir_a_olc does, line 176).                     *)

(* Line 235 raises in simular_recepcion_datos, which has no try: nothing is
   appended and the producer task ends with the exception. *)
ConvertirFalla ==
    /\ Suspendido(pcProd)
    /\ pcDrv = "dormido" \/ (pcDrv = "inicio" /\ pcProd = "inicio")
    /\ pcProd' = "excepcion"
    /\ falla' = "ErrorConversion"
    /\ UNCHANGED <<storeVars, suscriptores, clock, lectura, pcDrv, filtroVars,
                   pasoVars>>

(* Lines 279-285: gather hands the exception to main, main leaves
   asyncio.run, and asyncio.run cancels the task still pending. *)
CancelarTareas ==
    /\ pcProd = "excepcion"
    /\ Suspendido(pcDrv)
    /\ pcDrv' = "cancelada"
    /\ UNCHANGED <<storeVars, suscriptores, clock, pcProd, lectura, filtroVars,
                   pasoVars, falla>>

NextAdaptador ==
    \/ Next
    \/ ConvertirFalla
    \/ CancelarTareas

SpecAdaptador == Init /\ [][NextAdaptador]_vars

-----------------------------------------------------------------------------
(* A Publicador whose subscribers may call suscribir or desuscribir from     *)
(* inside actualizar (a subclass of Suscriptor overriding it, lines 30-32).  *)

(* What such an actualizar does to the list: observer `quien` unsubscribes
   or subscribes observer `a`, after testing that the call applies. *)
Callbacks ==
    [quien : Observers, que : {"desuscribir", "suscribir"}, a : Observers]

EfectoActualizar(cb, sub, subs) ==
    IF sub # cb.quien THEN subs
    ELSE IF cb.que = "desuscribir"
         THEN (IF Registrado(subs, cb.a) THEN Desuscribir(subs, cb.a) ELSE subs)
         ELSE (IF Registrado(subs, cb.a) THEN subs ELSE Suscribir(subs, cb.a))

(* Publicador.notificar, lines 26-28: `for sub in self.suscriptores` walks
   the list itself by position, i being the position of the next element. *)
RECURSIVE NotificarVivo(_, _, _, _)
NotificarVivo(subs, n, i, cb) ==
    IF i > Len(subs)
    THEN [subs |-> subs, entregas |-> <<>>]
    ELSE LET entrega == [sub |-> subs[i], notificacion |-> n,
                         imprime |-> Actualizar(subs[i], n)]
             resto == NotificarVivo(EfectoActualizar(cb, subs[i], subs), n, i + 1, cb)
         IN  [subs |-> resto.subs, entregas |-> <<entrega>> \o resto.entregas]

(* `traza` keeps the list as it was when notificar was called. *)
PublicadorNotificarReentrante(n, cb) ==
    /\ LET r == NotificarVivo(suscriptores, n, 1, cb)
       IN  /\ suscriptores' = r.subs
           /\ entregas' = r.entregas
    /\ publicadas' = <<n>>
    /\ traza' = <<"notificar_reentrante">> \o suscriptores
    /\ falla' = "ninguna"
    /\ UNCHANGED <<storeVars, clock, pcProd, lectura, pcDrv, filtroVars>>

NextBusReentrante ==
    \/ \E observer \in Observers : PublicadorSuscribir(observer)
    \/ \E observer \in Observers : PublicadorDesuscribir(observer)
    \/ \E n \in Notificaciones : PublicadorNotificar(n)
    \/ \E n \in Notificaciones, cb \in Callbacks : PublicadorNotificarReentrante(n, cb)

SpecBusReentrante == InitBus /\ [][NextBusReentrante]_vars

-----------------------------------------------------------------------------
(* The program under the scheduling of the asyncio event loop: a task whose
   sleep has ended is put on the FIFO ready queue and is run after the tasks
   queued before it, so a turn that is enabled again and again is taken
   (strong fairness for the two loop heads); a task that is running goes on
   to its next suspension point (weak fairness for the steps inside a turn). *)
SpecJusto ==
    /\ Init
    /\ [][Next]_vars
    /\ SF_vars(Recibir)
    /\ WF_vars(AsignarUltimo)
    /\ SF_vars(ProcesarDatos)
    /\ WF_vars(EstadisticasHandler)
    /\ WF_vars(UmbralTemperaturaHandler)
    /\ WF_vars(VariacionHandler)
    /\ WF_vars(Dormir)

-----------------------------------------------------------------------------
(* Helpers of the properties *)

DeCategoria(ns, categoria) == {i \in 1..Len(ns) : ns[i].categoria = categoria}

UltimoPaso == IF traza = <<>> THEN "None" ELSE Last(traza)

(* Indices of `s` whose reading is no older than `segundos` at `instante`. *)
IndicesRecientes(s, instante, segundos) ==
    {i \in 1..Len(s) : instante - Timestamp(s[i]) <= segundos}

-----------------------------------------------------------------------------
(* C1: once UmbralTemperaturaHandler.manejar has run on a store, it has
   published exactly one notification, of categoria Temperatura and
   prioridad 9, if the temperature of ultimo_dato is strictly above 25.0,
   and none otherwise; with ultimo_dato absent it has published nothing. *)
C1_UmbralPublica ==
    UltimoPaso = "Umbral" =>
        IF ultimo_dato # None /\ Temperatura(ultimo_dato) > UMBRAL_TEMP
        THEN /\ Len(publicadas) = 1
             /\ publicadas[1].categoria = "Temperatura"
             /\ publicadas[1].prioridad = 9
             /\ entregas = Notificar(suscriptores, publicadas[1])
        ELSE publicadas = <<>> /\ entregas = <<>>

C1_Witness ==
    /\ UltimoPaso = "Umbral"
    /\ ultimo_dato # None
    /\ Temperatura(ultimo_dato) = UMBRAL_TEMP + 1
    /\ Len(publicadas) = 1

-----------------------------------------------------------------------------
(* C2: once VariacionHandler.manejar has run, it has published exactly one
   notification, of categoria Variacion and prioridad 8, if among the
   readings no older than 30 seconds at its `now` two temperatures or two
   humidities differ by more than 2, and none otherwise (none for an empty
   30-second window); older readings do not count. *)
C2_VariacionPublica ==
    UltimoPaso = "Variacion" =>
        LET W == IndicesRecientes(datos, now, 30)
            brusca == \E i \in W, j \in W :
                         \/ Temperatura(datos[i]) - Temperatura(datos[j]) > 200
                         \/ Humedad(datos[i]) - Humedad(datos[j]) > 200
            V == DeCategoria(publicadas, "Variacion")
        IN  /\ Cardinality(V) = (IF brusca THEN 1 ELSE 0)
            /\ \A k \in V : publicadas[k].prioridad = 8
            /\ Len(entregas) = Len(publicadas) * Len(suscriptores)

C2_Witness ==
    /\ UltimoPaso = "Variacion"
    /\ Cardinality(DeCategoria(publicadas, "Variacion")) = 1
    /\ \A i \in 1..Len(datos), j \in 1..Len(datos) :
           Temperatura(datos[i]) - Temperatura(datos[j]) <= VARIACION_MAX

(* A reading older than 30 s but inside the 60 s window, far from the
   latest one, and no notification. *)
C2_ViejaNoCuenta ==
    /\ UltimoPaso = "Variacion"
    /\ DeCategoria(publicadas, "Variacion") = {}
    /\ \E i \in IndicesRecientes(datos, now, 60), j \in IndicesRecientes(datos, now, 30) :
           Temperatura(datos[j]) - Temperatura(datos[i]) > VARIACION_MAX

-----------------------------------------------------------------------------
Entregadas(observer) == {i \in 1..Len(entregas) : entregas[i].sub = observer}

(* C3: after any sequence of suscribir and desuscribir calls, notificar
   delivers the notification exactly once to each registered observer, in
   registration order, and to no observer that is not registered. *)
C3_UnaEntregaPorSuscriptor ==
    (traza = <<"notificar">>) =>
        /\ \A observer \in Observers :
               Cardinality(Entregadas(observer)) =
                   (IF Registrado(suscriptores, observer) THEN 1 ELSE 0)
        /\ [i \in 1..Len(entregas) |-> entregas[i].sub] = suscriptores
        /\ \A i \in 1..Len(entregas) : entregas[i].notificacion = publicadas[1]

-----------------------------------------------------------------------------
(* C4: whenever the producer is suspended (the only states the driver can
   observe), ultimo_dato is None or the last element of datos. *)
C4_UltimoEsElUltimo ==
    Suspendido(pcProd) =>
        \/ ultimo_dato = None
        \/ datos # <<>> /\ ultimo_dato = Last(datos)

C4_Witness ==
    /\ pcProd = "dormido"
    /\ Len(datos) = 2
    /\ datos[1] # datos[2]
    /\ ultimo_dato = datos[2]
    /\ pcDrv \in {"Estadisticas", "Umbral", "Variacion"}

-----------------------------------------------------------------------------
OrdenCadena == <<"Estadisticas", "Umbral", "Variacion">>

RECURSIVE EntregasDe(_)
EntregasDe(ns) ==
    IF ns = <<>> THEN <<>>
    ELSE Notificar(suscriptores, Head(ns)) \o EntregasDe(Tail(ns))

(* C5: a pass of the chain built by main enters Estadisticas, Umbral and
   Variacion in that order, one at a time; every notification published so
   far has been delivered to every subscriber before the next handler is
   entered, so no subscriber gets a Variacion notification before the
   Temperatura one of the same pass; after Variacion the pass has returned. *)
C5_OrdenDeLaCadena ==
    /\ IsPrefix(traza, OrdenCadena)
    /\ pcDrv \in {"Estadisticas", "Umbral", "Variacion"} =>
           pcDrv = OrdenCadena[Len(traza) + 1]
    /\ pcDrv = "retorno" => traza = OrdenCadena
    /\ entregas = EntregasDe(publicadas)
    /\ \A i \in 1..Len(entregas), j \in 1..Len(entregas) :
           /\ entregas[i].sub = entregas[j].sub
           /\ entregas[i].notificacion.categoria = "Temperatura"
           /\ entregas[j].notificacion.categoria = "Variacion"
           => i < j

C5_Witness ==
    /\ pcDrv = "retorno"
    /\ traza = OrdenCadena
    /\ Len(publicadas) = 2
    /\ Len(entregas) = 4

-----------------------------------------------------------------------------
(* C6: the list a window filter of the driver has read is always a prefix
   of the list as the producer has extended it since, made of whole
   readings: nothing is removed, changed, reordered or half written. *)
C6_VistoEsPrefijo ==
    /\ IsPrefix(visto, datos)
    /\ \A i \in 1..Len(visto) : visto[i] \in Reading
    /\ \A i \in 1..Len(recientes) : \E j \in 1..Len(visto) : recientes[i] = visto[j]

C6_Witness ==
    /\ visto # <<>>
    /\ Len(datos) > Len(visto)
    /\ Last(datos) # visto[1]

-----------------------------------------------------------------------------
(* C7: in bounded mode with a minimum count of 5 the chain runs only once
   five readings have been appended, once, and then the tasks end. *)
C7_PaseConCincoLecturas ==
    pcDrv \in {"Estadisticas", "Umbral", "Variacion"} => Len(datos) = 5

-----------------------------------------------------------------------------
(* C8: a pass started on any store, an empty one or one whose ultimo_dato
   is absent included, raises nothing and reaches the end of the chain. *)
C8_NingunPaseFalla ==
    falla = "ninguna" /\ pcDrv # "excepcion"

-----------------------------------------------------------------------------
(* C9: the list a handler's filter produces holds exactly the readings of
   the store with timestamp >= now - d (d = 60 for Estadisticas, 30 for
   Variacion), the edge included, in arrival order, and the filter leaves
   the store as it read it. *)
C9_FiltroExacto ==
    ventana # 0 =>
        LET I == {i \in 1..Len(visto) : Timestamp(visto[i]) >= now - ventana}
            Puesto(i) == Cardinality({j \in I : j <= i})
        IN  /\ ventana = (IF UltimoPaso = "Variacion" THEN 30 ELSE 60)
            /\ Len(recientes) = Cardinality(I)
            /\ \A i \in I : recientes[Puesto(i)] = visto[i]
            /\ datos = visto

C9_Witness ==
    /\ ventana = 30
    /\ Len(visto) = 2
    /\ Timestamp(visto[1]) = now - 31
    /\ Timestamp(visto[2]) = now - 30
    /\ recientes = <<visto[2]>>

-----------------------------------------------------------------------------
Valor(dict, clave) == (CHOOSE p \in dict : p[1] = clave)[2]

RECURSIVE SumaSobre(_, _)
SumaSobre(xs, I) ==
    IF I = {} THEN 0
    ELSE LET i == CHOOSE k \in I : TRUE IN xs[i] + SumaSobre(xs, I \ {i})

EstadisticosCorrectos(xs, media, desv) ==
    LET n == Len(xs)
        S == SumaSobre(xs, 1..n)
        cuadrados == [i \in 1..n |-> (n * xs[i] - S) * (n * xs[i] - S)]
    IN  CASE n = 0 -> media = None /\ desv = <<0, 1>>
          [] n = 1 -> media = <<xs[1], 1>> /\ desv = <<0, 1>>
          [] OTHER ->
               /\ media # None /\ media[2] > 0 /\ desv[2] > 0
               /\ media[1] * n = S * media[2]
               /\ desv[1] * (n * n * (n - 1)) = SumaSobre(cuadrados, 1..n) * desv[2]

(* C10: the statistics EstadisticasHandler stores are, for the temperatures
   and for the humidities of its 60-second window alike: media None and
   desv 0 for no element; media the element and desv 0 for one element; the
   arithmetic mean and the sample standard deviation (divisor n - 1) for
   two or more.  Fractions are compared by cross-multiplication. *)
C10_Estadisticas ==
    UltimoPaso = "Estadisticas" =>
        /\ {p[1] : p \in estadisticas} =
               {"media_temp", "desv_temp", "media_hum", "desv_hum"}
        /\ Cardinality(estadisticas) = 4
        /\ EstadisticosCorrectos(Temperaturas(recientes),
                                 Valor(estadisticas, "media_temp"),
                                 Valor(estadisticas, "desv_temp"))
        /\ EstadisticosCorrectos(Humedades(recientes),
                                 Valor(estadisticas, "media_hum"),
                                 Valor(estadisticas, "desv_hum"))

C10_Witness ==
    /\ UltimoPaso = "Estadisticas"
    /\ Len(recientes) = 2
    /\ Len(datos) = 2
    /\ Temperatura(recientes[1]) # Temperatura(recientes[2])
    /\ Valor(estadisticas, "desv_temp")[1] > 0
    /\ Valor(estadisticas, "desv_hum")[1] = 0

-----------------------------------------------------------------------------
(* C11: a turn of the loop of procesar_datos calls the chain, once, if the
   store is not empty and goes straight to sleep if it is empty; the chain
   is entered from nowhere else, and once it has returned the driver sleeps
   until its next turn.  No pass runs on an empty store. *)
C11_UnPasePorTurno ==
    [][/\ (Suspendido(pcDrv) /\ pcDrv' # pcDrv) =>
              IF datos # <<>> THEN pcDrv' = Cadena /\ traza' = <<>>
                              ELSE pcDrv' = "dormido"
       /\ (pcDrv' = Cadena /\ pcDrv # Cadena) => Suspendido(pcDrv)
       /\ (pcDrv = "retorno" /\ pcDrv' # pcDrv) => pcDrv' = "dormido"
       /\ pcDrv' \in {"Estadisticas", "Umbral", "Variacion", "retorno"} =>
              datos' # <<>>]_vars

C11_Witness ==
    /\ pcDrv = "dormido"
    /\ pcProd = "dormido"
    /\ datos = <<>>
    /\ traza = <<>>

-----------------------------------------------------------------------------
(* C12: when convertir_a_olc fails for a reading, only that reading is
   skipped: the failure ends neither the producer nor the driver. *)
C12_FallaNoTermina ==
    falla = "ErrorConversion" =>
        /\ pcProd # "excepcion"
        /\ pcDrv # "cancelada"

-----------------------------------------------------------------------------
(* C13: when a subscriber registers or unregisters a subscriber from inside
   actualizar, the notificar in progress still calls exactly the subscribers
   that were registered when it began, each once, in registration order. *)
C13_InstantaneaEstable ==
    (traza # <<>> /\ traza[1] = "notificar_reentrante") =>
        [i \in 1..Len(entregas) |-> entregas[i].sub] = Tail(traza)

-----------------------------------------------------------------------------
(* C14: for every published notification, SuscriptorGeneral reacts
   unconditionally and SuscriptorTemperaturaAlta reacts if and only if the
   categoria is "Temperatura" and the prioridad is at least 8; so it reacts to
   every notification of UmbralTemperaturaHandler and to none of
   VariacionHandler. *)
C14_QuienReacciona ==
    \A i \in 1..Len(entregas) :
        LET e == entregas[i]
            n == entregas[i].notificacion
        IN  /\ e.sub = "Administrador" => e.imprime
            /\ e.sub = "AlertaTemperatura" =>
                   (e.imprime <=> (n.categoria = "Temperatura" /\ n.prioridad >= 8))
            /\ (e.sub = "AlertaTemperatura" /\ \E t \in Temps : n = NotificacionTemperatura(t))
                   => e.imprime
            /\ (e.sub = "AlertaTemperatura" /\ n = NotificacionVariacion) => ~e.imprime

C14_Witness ==
    /\ \E i \in 1..Len(entregas) :
           /\ entregas[i].sub = "AlertaTemperatura"
           /\ entregas[i].notificacion.categoria = "Temperatura"
           /\ entregas[i].notificacion.prioridad = 8
           /\ entregas[i].imprime
    /\ \E i \in 1..Len(entregas) : entregas[i].sub = "Administrador"

-----------------------------------------------------------------------------
(* The last n elements of s. *)
Cola(s, n) == [k \in 1..n |-> s[Len(s) - n + k]]

(* C15: the step of EstadisticasHandler publishes nothing and changes only
   the statistics: datos, ultimo_dato and the subscriber list stay as they
   were, estadisticas becomes the statistics of the readings no older than
   60 seconds, and control always passes to the next handler. *)
C15_SoloEstadisticas ==
    [][(traza' # traza /\ traza' # <<>> /\ Last(traza') = "Estadisticas") =>
           LET n == Cardinality(IndicesRecientes(datos, clock, 60))
               W == Cola(datos, n)
           IN  /\ datos' = datos
               /\ ultimo_dato' = ultimo_dato
               /\ suscriptores' = suscriptores
               /\ publicadas' = publicadas
               /\ entregas' = entregas
               /\ falla' = falla
               /\ pcDrv' = "Umbral"
               /\ Cardinality(estadisticas') = 4
               /\ EstadisticosCorrectos([k \in 1..n |-> Temperatura(W[k])],
                                        Valor(estadisticas', "media_temp"),
                                        Valor(estadisticas', "desv_temp"))
               /\ EstadisticosCorrectos([k \in 1..n |-> Humedad(W[k])],
                                        Valor(estadisticas', "media_hum"),
                                        Valor(estadisticas', "desv_hum"))]_vars

C15_Witness ==
    /\ UltimoPaso = "Estadisticas"
    /\ pcDrv = "Umbral"
    /\ Len(datos) = 2
    /\ Len(recientes) = 1
    /\ publicadas = <<>>
    /\ Valor(estadisticas, "media_temp") = <<Temperatura(datos[2]), 1>>

-----------------------------------------------------------------------------
(* C16: the producer never runs inside a pass of the chain: from the entry
   of EstadisticasHandler to the return of VariacionHandler no step changes
   datos or ultimo_dato, the producer stays suspended at its sleep, and
   ultimo_dato (what UmbralTemperaturaHandler reads) is the last element of
   the list VariacionHandler filters. *)
C16_PaseAtomico ==
    [][(pcDrv \in {"Estadisticas", "Umbral", "Variacion"}) =>
           /\ datos' = datos
           /\ ultimo_dato' = ultimo_dato
           /\ pcProd = "dormido" /\ pcProd' = "dormido"
           /\ datos # <<>> /\ ultimo_dato = Last(datos)
           /\ (pcDrv = "Variacion" /\ pcDrv' # pcDrv) =>
                  (visto' = datos /\ ultimo_dato = Last(visto'))]_vars

C16_Witness ==
    /\ pcDrv = "retorno"
    /\ traza = OrdenCadena
    /\ visto = datos
    /\ Len(datos) = 1
    /\ ultimo_dato = datos[1]
    /\ ventana = SEGUNDOS_VARIACION

-----------------------------------------------------------------------------
(* C17: in the program as main wires it, whenever the driver can run (the
   producer is suspended) a non-empty datos comes with a present
   ultimo_dato; so every pass has a present ultimo_dato and
   UmbralTemperaturaHandler never subscripts None. *)
C17_UltimoPresente ==
    /\ (Suspendido(pcProd) /\ datos # <<>>) => ultimo_dato # None
    /\ pcDrv \in {"Estadisticas", "Umbral", "Variacion", "retorno"} =>
           ultimo_dato # None /\ ultimo_dato \in Reading
    /\ falla # "TypeError"
    /\ pcDrv # "excepcion"

C17_Witness ==
    /\ pcDrv = "Variacion"
    /\ UltimoPaso = "Umbral"
    /\ ultimo_dato # None
    /\ Len(datos) = 1
    /\ falla = "ninguna"

-----------------------------------------------------------------------------
(* C18: under fair scheduling and with no fault the two loops never stop:
   the driver starts a pass again and again and sleeps again and again, no
   task ends or raises, and the producer appends its next reading (here: as
   long as the store holds fewer than MaxReadings readings). *)
C18_NuncaTermina ==
    /\ []<>(pcDrv = Cadena)
    /\ []<>(pcDrv = "dormido")
    /\ [](pcDrv \notin {"excepcion", "cancelada", "fin"} /\ pcProd # "excepcion")
    /\ \A n \in 0..(MaxReadings - 1) : (Len(datos) = n) ~> (Len(datos) = n + 1)

C18_Witness ==
    /\ pcDrv = Cadena
    /\ traza = <<>>
    /\ Len(visto) = 1
    /\ Len(datos) = 2
    /\ pcProd = "dormido"

-----------------------------------------------------------------------------
Registros(subs, observer) == {i \in 1..Len(subs) : subs[i] = observer}

(* C19: desuscribir removes exactly one registration of the observer, the
   earliest, and keeps the others in their order; an observer that is not
   registered makes it raise ValueError and the list stays as it was.  Each
   notificar calls an observer once per registration it still has, so k
   registrations and one desuscribir give k - 1 calls. *)
C19_QuitaElPrimero ==
    [][(traza' # <<>>) =>
           LET observer == traza'[2]
               R == Registros(suscriptores, observer)
               p == CHOOSE i \in R : \A j \in R : i <= j
           IN  /\ (traza'[1] = "desuscribir" /\ R # {}) =>
                      /\ Len(suscriptores') = Len(suscriptores) - 1
                      /\ \A i \in 1..(p - 1) : suscriptores'[i] = suscriptores[i]
                      /\ \A i \in p..Len(suscriptores') :
                             suscriptores'[i] = suscriptores[i + 1]
                      /\ Cardinality(Registros(suscriptores', observer)) =
                             Cardinality(R) - 1
                      /\ falla' = "ninguna"
               /\ (traza'[1] = "desuscribir" /\ R = {}) =>
                      /\ suscriptores' = suscriptores
                      /\ falla' = "ValueError"
               /\ (traza'[1] = "notificar") =>
                      \A o \in Observers :
                          Cardinality({i \in 1..Len(entregas') : entregas'[i].sub = o})
                              = Cardinality(Registros(suscriptores, o))]_vars

C19_Witness ==
    /\ traza = <<"desuscribir", "Administrador">>
    /\ suscriptores = <<"AlertaTemperatura", "Administrador">>
    /\ falla = "ninguna"

====
